---- MODULE Spec2Model ----
(***************************************************************************)
(* A model of the build-orchestration and reporting pipeline of            *)
(* nixpkgs-review: nix_eval / _nix_eval_filter / pre_build_filter /        *)
(* nix_build of nixpkgs_review/nix.py and SystemReport / Report of         *)
(* nixpkgs_review/report.py.                                               *)
(*                                                                         *)
(* Python's None is the string "None" where the other values are strings,  *)
(* and a record with set = FALSE where the other values are structured.    *)
(***************************************************************************)
EXTENDS Integers, Sequences, FiniteSets, TLC

VARIABLES
    pc,                 \* position of the nix_build / nix_eval call
    attr_names,         \* nix_build(attr_names, ...) / nix_eval(attrs, ...)
    tree,               \* the package tree: identifier -> raw evaluation entry
    MAX_ATTRS_AT_ONCE,  \* chunk size of nix_eval
    i,                  \* loop index of nix_eval's chunk loop
    eval_data,          \* nix_eval's merged mapping, in dict (insertion) order
    eval_calls,         \* chunks handed to the external evaluator so far
    tmp_files,          \* temporary input files of _eval still on disk
    files,              \* files written below cache_directory
    hooks,              \* hooks of NIXPKGS_REVIEW_PRE_BUILD_FILTER not yet run
    hook_calls,         \* hooks run so far
    attrs,              \* nix_build's local list of Attr
    post_hook,          \* the list pre_build_filter returned
    builds,             \* invocations of the build tool: the targets of each
    stderr,             \* proc.stderr of the captured invocation, as lines
    exception,          \* the exception that left the call, or "None"
    error_args,         \* what the message of NixpkgsReviewError names
    env,                \* NIXPKGS_REVIEW_PRE_BUILD_FILTER split at ":"
    hook_log,           \* per hook run: the command, what it read and printed
    attrs_per_system,   \* Report.attrs
    system_reports,     \* Report.system_reports: per platform, per bucket, the
                        \* records as indexes into attrs_per_system
    store,              \* the output paths that verify in the content store
    rpc,                \* position of the Report life cycle
    attrs_keys,         \* the platforms in the order of attrs_per_system.items()
    report_args,        \* extra_nixpkgs_config, show_header, checkout of Report
    report_keys,        \* list(Report.system_reports.keys())
    upload_next,        \* upload_build_logs: failed records already visited
    uploads,            \* upload_build_logs: the calls of upload_gist
    links,              \* write_result_links: the symlinks below directory
    dirs,               \* write_result_links: the directories made
    md,                 \* what Report.markdown returned, per call
    docs,               \* what Report.json returned, per call
    was_build_calls,    \* the calls of Attr.was_build
    rexception          \* the exception that left a reporting call, or "None"

buildVars == <<pc, attr_names, tree, MAX_ATTRS_AT_ONCE, i, eval_data, eval_calls,
               tmp_files, files, hooks, hook_calls, attrs, post_hook, builds,
               stderr, exception, error_args, env, hook_log>>
outputVars == <<upload_next, uploads, links, dirs, md, docs, rexception>>
reportVars == <<attrs_per_system, system_reports, store, rpc, attrs_keys, report_args,
                report_keys, was_build_calls, outputVars>>
vars == <<buildVars, reportVars>>

None == "None"

-----------------------------------------------------------------------------
(* Bounds of the model.                                                    *)

MaxChunk == 2       \* chunk sizes 1..MaxChunk stand for the program's 4096
MaxHooks == 1       \* hooks configured in NIXPKGS_REVIEW_PRE_BUILD_FILTER
MaxLines == 2       \* lines of the build tool's stderr
MaxReportAttrs == 2 \* records handed to one Report, over all platforms
MaxSegments == 2    \* items of NIXPKGS_REVIEW_PRE_BUILD_FILTER split at ":"
MaxCalls == 3       \* calls of Attr.was_build besides those of the classifier

-----------------------------------------------------------------------------
(* Identifiers.  NameOrder lists every identifier of the model in the      *)
(* order Python's sorted() gives for str (code point order).               *)

NameOrder == <<"aaa", "aab", "b", "cc", "nixosTests.x", "pkg", "pkg.dev", "tests.trivial">>

Rank(name) == CHOOSE k \in 1..Len(NameOrder) : NameOrder[k] = name

RECURSIVE sorted(_)
sorted(S) ==
    IF S = {} THEN <<>>
    ELSE LET first == CHOOSE n \in S : \A m \in S : Rank(n) <= Rank(m)
         IN  <<first>> \o sorted(S \ {first})

Min(a, b) == IF a < b THEN a ELSE b

blacklist ==
    { "appimage-run-tests", "darwin.builder", "nixos-install-tools",
      "tests.nixos-functions.nixos-test", "tests.nixos-functions.nixosTest-test",
      "tests.php.overrideAttrs-preserves-enabled-extensions",
      "tests.php.withExtensions-enables-previously-disabled-extensions",
      "tests.trivial", "tests.writers" }

NoMsg == [set |-> FALSE, text |-> <<>>]
Msg(lines) == [set |-> TRUE, text |-> lines]

(* Attr(...) of the dataclass: the fields of __init__ and the defaults.    *)
Attr(name, exists, broken, blacklisted, skipped, path, drv_path) ==
    [ name |-> name, exists |-> exists, broken |-> broken,
      blacklisted |-> blacklisted, skipped |-> skipped, path |-> path,
      drv_path |-> drv_path, log_url |-> None, aliases |-> <<>>,
      timed_out |-> FALSE, build_err_msg |-> NoMsg, _path_verified |-> None ]

-----------------------------------------------------------------------------
(* nix_eval: the chunk loop, the external evaluator and _nix_eval_filter.  *)

(* The external evaluator (nix eval of nix/evalAttrs.nix): one entry per   *)
(* identifier of the chunk, taken from the package tree, the keys in the   *)
(* order of the JSON object nix prints (sorted, as the chunk is).          *)
Evaluator(chunk) ==
    [ k \in 1..Len(chunk) |-> [name |-> chunk[k], props |-> tree[chunk[k]]] ]

(* attrlist[i : i + MAX_ATTRS_AT_ONCE], i counted from 0.                  *)
Chunk(attrlist, from, size) ==
    SubSeq(attrlist, from + 1, Min(from + size, Len(attrlist)))

KeyIndex(d, key) ==
    IF \E k \in 1..Len(d) : d[k].name = key
    THEN CHOOSE k \in 1..Len(d) : d[k].name = key
    ELSE 0

(* eval_data = _eval(chunk) in place of eval_data.update(_eval(chunk)).    *)
DictAssign(d, new) == new

(* dict.update: a key already present keeps its place and takes the new   *)
(* value, a new key is appended.                                           *)
RECURSIVE DictUpdate(_, _)
DictUpdate(d, new) ==
    IF new = <<>> THEN d
    ELSE LET e == Head(new)
             k == KeyIndex(d, e.name)
         IN  DictUpdate(IF k = 0 THEN Append(d, e) ELSE [d EXCEPT ![k] = e],
                        Tail(new))

PathIndex(by_path, path) ==
    IF \E k \in 1..Len(by_path) : by_path[k].path = path
    THEN CHOOSE k \in 1..Len(by_path) : by_path[k].path = path
    ELSE 0

(* One pass of the loop of _nix_eval_filter; attr_by_path is a dict, kept  *)
(* here as the sequence of its values in insertion order of their keys.    *)
FilterStep(attr_by_path, attr) ==
    LET k == PathIndex(attr_by_path, attr.path)
    IN  IF k = 0 THEN Append(attr_by_path, attr)
        ELSE LET other == attr_by_path[k]
             IN  IF Len(other.name) > Len(attr.name)
                 THEN [attr_by_path EXCEPT
                          ![k] = [attr EXCEPT !.aliases = Append(@, other.name)]]
                 ELSE [attr_by_path EXCEPT
                          ![k] = [other EXCEPT !.aliases = Append(@, attr.name)]]

RECURSIVE FilterLoop(_, _, _)
FilterLoop(json, attr_by_path, broken) ==
    IF json = <<>> THEN attr_by_path \o broken
    ELSE LET name == Head(json).name
             props == Head(json).props
             attr == Attr(name, props.exists, props.broken, name \in blacklist,
                          FALSE, props.path, props.drvPath)
         IN  IF attr.path # None
             THEN FilterLoop(Tail(json), FilterStep(attr_by_path, attr), broken)
             ELSE FilterLoop(Tail(json), attr_by_path, Append(broken, attr))

_nix_eval_filter(json) == FilterLoop(json, <<>>, <<>>)

attrlist == sorted(attr_names)

(* The finally clause of _eval with 'if delete' left out: the file is      *)
(* unlinked whatever the evaluator returned.                               *)
UnlinkAlways(on_disk, name, delete) == on_disk \ {name}

(* finally: attr_json.close(); if delete: os.unlink(attr_json.name)        *)
Unlink(on_disk, name, delete) == IF delete THEN on_disk \ {name} ELSE on_disk

(* NamedTemporaryFile(mode="w+", delete=False): a new file; the chunk that *)
(* starts at i gets the name i.                                            *)
NamedTemporaryFile(on_disk, name) == on_disk \cup {name}

NoError == [cmd |-> None, file |-> -1]

(* One pass of the chunk loop with an evaluator that exits zero: the       *)
(* temporary file is written, read by the evaluator and unlinked.          *)
EvalChunk ==
    /\ pc = "eval"
    /\ UNCHANGED reportVars
    /\ UNCHANGED <<error_args, env, hook_log>>
    /\ i < Cardinality(attr_names)
    /\ tmp_files' = Unlink(NamedTemporaryFile(tmp_files, i), i, TRUE)
    /\ eval_data' = DictUpdate(eval_data, Evaluator(Chunk(attrlist, i, MAX_ATTRS_AT_ONCE)))
    /\ eval_calls' = eval_calls + 1
    /\ i' = i + MAX_ATTRS_AT_ONCE
    /\ UNCHANGED <<pc, attr_names, tree, MAX_ATTRS_AT_ONCE, files, hooks,
                   hook_calls, attrs, post_hook, builds, stderr, exception>>

(* One pass with an evaluator that exits non-zero: delete = False, the     *)
(* file stays, NixpkgsReviewError leaves nix_eval (and nix_build); its     *)
(* message holds the command and attr_json.name.                           *)
EvalChunkFail ==
    /\ pc = "eval"
    /\ UNCHANGED reportVars
    /\ UNCHANGED <<env, hook_log>>
    /\ i < Cardinality(attr_names)
    /\ eval_calls' = eval_calls + 1
    /\ tmp_files' = Unlink(NamedTemporaryFile(tmp_files, i), i, FALSE)
    /\ exception' = "NixpkgsReviewError"
    /\ error_args' = [cmd |-> "nix eval", file |-> i]
    /\ pc' = "raised"
    /\ UNCHANGED <<attr_names, tree, MAX_ATTRS_AT_ONCE, i, eval_data, files, hooks,
                   hook_calls, attrs, post_hook, builds, stderr>>

(* After the loop: changed-attrs.json is written into the cache directory  *)
(* and the merged mapping goes through _nix_eval_filter.                   *)
EvalFinish ==
    /\ pc = "eval"
    /\ UNCHANGED reportVars
    /\ UNCHANGED <<error_args, env, hook_log>>
    /\ i >= Cardinality(attr_names)
    /\ files' = files \cup {"changed-attrs.json"}
    /\ attrs' = _nix_eval_filter(eval_data)
    /\ pc' = "hooks"
    /\ UNCHANGED <<attr_names, tree, MAX_ATTRS_AT_ONCE, i, eval_data, eval_calls,
                   tmp_files, hooks, hook_calls, post_hook, builds, stderr, exception>>

-----------------------------------------------------------------------------
(* pre_build_filter: the hooks of NIXPKGS_REVIEW_PRE_BUILD_FILTER.         *)

(* Attr of **arg for one record of a hook's output.  arg carries the keys *)
(* of __init__; _path_verified is init=False and starts again at None.     *)
FromSnapshot(arg) ==
    [ Attr(arg.name, arg.exists, arg.broken, arg.blacklisted, arg.skipped,
           arg.path, arg.drv_path)
      EXCEPT !.log_url = arg.log_url, !.aliases = arg.aliases,
             !.timed_out = arg.timed_out, !.build_err_msg = arg.build_err_msg ]

(* The snapshot with at most one record now marked skipped (0: none).      *)
HookOutput(snapshot, skip) ==
    [ k \in 1..Len(snapshot) |->
        IF k = skip THEN [snapshot[k] EXCEPT !.skipped = TRUE] ELSE snapshot[k] ]

(* The hooks of the environment variable: the items of split(":") that     *)
(* are not empty, in their order.                                          *)
Cmds(segments) == SelectSeq(segments, LAMBDA cmd : cmd # "")

(* The hook the for loop runs after 'done' hooks have run.                 *)
NextCmd(segments, done) == Cmds(segments)[done + 1]

(* A hook's output record without the key _path_verified.                  *)
StripKey(arg) == [ key \in DOMAIN arg \ {"_path_verified"} |-> arg[key] ]

(* What hooks print for the snapshot they read: the records as read or     *)
(* with at most one marked skipped, the key _path_verified kept or dropped *)
(* in all of them.                                                         *)
HookOutputs(snapshot) ==
    { HookOutput(snapshot, skip) : skip \in 0..Len(snapshot) }
    \cup { [ k \in 1..Len(snapshot) |-> StripKey(HookOutput(snapshot, skip)[k]) ] :
             skip \in 0..Len(snapshot) }

(* Attr of **arg raises TypeError for a key that __init__ does not take:  *)
(* _path_verified is a field with init=False.                              *)
TypeError(output) ==
    \E k \in 1..Len(output) : "_path_verified" \in DOMAIN output[k]

(* One hook: it reads the snapshot [attr.__dict__ for attr in attrs] and   *)
(* prints records, from which the new list is made.                        *)
RunHook ==
    /\ pc = "hooks"
    /\ UNCHANGED reportVars
    /\ UNCHANGED <<error_args, env>>
    /\ hooks > 0
    /\ hook_calls' = hook_calls + 1
    /\ hooks' = hooks - 1
    /\ \E output \in HookOutputs(attrs) :
          /\ hook_log' = Append(hook_log, [ cmd |-> NextCmd(env, hook_calls),
                                            input |-> attrs, output |-> output ])
          /\ IF TypeError(output)
             THEN /\ exception' = "TypeError"
                  /\ pc' = "raised"
                  /\ UNCHANGED attrs
             ELSE /\ attrs' = [ k \in 1..Len(output) |-> FromSnapshot(output[k]) ]
                  /\ UNCHANGED <<pc, exception>>
    /\ UNCHANGED <<attr_names, tree, MAX_ATTRS_AT_ONCE, i, eval_data, eval_calls,
                   tmp_files, files, post_hook, builds, stderr>>

-----------------------------------------------------------------------------
(* nix_build.                                                              *)

(* 'if attr_names is None' in place of 'if not attr_names': a set is      *)
(* never None.                                                             *)
NothingToBuildIsNone == FALSE

(* if not attr_names                                                       *)
NothingToBuild == attr_names = {}

(* The test of the filter loop with attr.skipped left out.                 *)
BuildableIgnoringSkipped(attr) == ~(attr.broken \/ attr.blacklisted)

Buildable(attr) == ~(attr.broken \/ attr.blacklisted \/ attr.skipped)

(* filtered: the names of the records that are neither broken nor          *)
(* blacklisted nor skipped, in list order.                                 *)
RECURSIVE Filtered(_)
Filtered(as) ==
    IF as = <<>> THEN <<>>
    ELSE (IF Buildable(Head(as)) THEN <<Head(as).name>> ELSE <<>>) \o Filtered(Tail(as))

(* Lines of the build tool's stderr.  copy: the line starts with           *)
(* "copying path '" and ends with "..."; dep: it contains "dependencies    *)
(* couldn't be built"; to: it contains "timed out after"; tok: the first   *)
(* blank-separated item containing the store directory, as the quoted      *)
(* store path drv followed by tail (drv = None: no such item).             *)
Line(copy, dep, to, drv, tail) ==
    [ copy |-> copy, dep |-> dep, to |-> to, tok |-> [drv |-> drv, tail |-> tail] ]

LineDomain ==
    { Line(FALSE, FALSE, FALSE, None, ""),      \* any other line
      Line(TRUE, FALSE, FALSE, "P1", "'"),      \* copying path '...' from '...'...
      Line(FALSE, TRUE, FALSE, "D1", "':"),     \* cannot build derivation 'D1': ...
      Line(FALSE, TRUE, FALSE, "D2", "':"),
      Line(FALSE, TRUE, FALSE, None, ""),       \* the pattern and no store path
      Line(FALSE, FALSE, TRUE, "D1", "'"),      \* building of 'D1' timed out after ...
      Line(FALSE, FALSE, TRUE, "D2", "'"),
      Line(FALSE, FALSE, TRUE, None, ""),
      Line(FALSE, TRUE, TRUE, "D1", "':") }     \* both patterns on one line

StderrDomain == UNION { [1..n -> LineDomain] : n \in 0..MaxLines }

(* The lines that are not 'copying path' noise.                            *)
IsNoise(line) == line.copy
StripNoise(lines) == SelectSeq(lines, LAMBDA line : ~IsNoise(line))

(* item.lstrip("'").rstrip(":'") and item.strip("'") of the token.         *)
DepKey(tok) == tok.drv
TimeoutKey(tok) == IF tok.tail = "':" THEN tok.drv \o tok.tail ELSE tok.drv

(* next(item for item in line.split() if nix_store in item) finds nothing. *)
StopIteration(lines) ==
    \E k \in 1..Len(lines) : (lines[k].dep \/ lines[k].to) /\ lines[k].tok.drv = None

(* has_failed_dependencies, as the set of its elements.                    *)
has_failed_dependencies(lines) ==
    { DepKey(lines[k].tok) : k \in { j \in 1..Len(lines) : lines[j].dep } }

(* has_timeout: drv -> the last line naming it.                            *)
TimeoutIndexes(lines, drv) ==
    { k \in 1..Len(lines) : lines[k].to /\ TimeoutKey(lines[k].tok) = drv }
has_timeout(lines) ==
    [ drv \in { TimeoutKey(lines[k].tok) : k \in { j \in 1..Len(lines) : lines[j].to } } |->
        lines[CHOOSE k \in TimeoutIndexes(lines, drv) :
                  \A j \in TimeoutIndexes(lines, drv) : j <= k] ]

(* drv_path_to_attr = {a.drv_path: a for a in attrs}: a later record       *)
(* replaces an earlier one with the same drv_path.  The index of the       *)
(* record the dict holds for drv, 0 when it holds none.                    *)
drv_path_to_attr(as, drv) ==
    IF \E k \in 1..Len(as) : as[k].drv_path = drv
    THEN CHOOSE k \in 1..Len(as) :
            /\ as[k].drv_path = drv
            /\ \A j \in 1..Len(as) : as[j].drv_path = drv => j <= k
    ELSE 0

(* The timeout loop without its line attr.timed_out = True.                *)
MarkTimeoutsMessageOnly(as, lines) ==
    [ k \in 1..Len(as) |->
        IF /\ as[k].drv_path \in DOMAIN has_timeout(lines)
           /\ drv_path_to_attr(as, as[k].drv_path) = k
        THEN [as[k] EXCEPT !.build_err_msg = Msg(<<has_timeout(lines)[as[k].drv_path]>>)]
        ELSE as[k] ]

(* for drv_path in has_timeout.keys(): ...                                 *)
MarkTimeouts(as, lines) ==
    [ k \in 1..Len(as) |->
        IF /\ as[k].drv_path \in DOMAIN has_timeout(lines)
           /\ drv_path_to_attr(as, as[k].drv_path) = k
        THEN [as[k] EXCEPT !.build_err_msg = Msg(<<has_timeout(lines)[as[k].drv_path]>>),
                           !.timed_out = TRUE]
        ELSE as[k] ]

(* for drv_path in has_failed_dependencies: ...                            *)
MarkFailedDependencies(as, lines) ==
    [ k \in 1..Len(as) |->
        IF /\ as[k].drv_path \in has_failed_dependencies(lines)
           /\ drv_path_to_attr(as, as[k].drv_path) = k
        THEN [as[k] EXCEPT !.build_err_msg = Msg(lines),
                           !.timed_out = @ \/ DOMAIN has_timeout(lines) # {}]
        ELSE as[k] ]

ParseStderr(as, lines) == MarkFailedDependencies(MarkTimeouts(as, lines), lines)

(* nix_build with an empty set: "Nothing to be built.", return [].         *)
ReturnNothing ==
    /\ pc = "call"
    /\ UNCHANGED reportVars
    /\ UNCHANGED <<error_args, env, hook_log>>
    /\ NothingToBuild
    /\ attrs' = <<>>
    /\ pc' = "done"
    /\ UNCHANGED <<attr_names, tree, MAX_ATTRS_AT_ONCE, i, eval_data, eval_calls,
                   tmp_files, files, hooks, hook_calls, post_hook, builds, stderr,
                   exception>>

(* nix_build goes on to nix_eval(attr_names, ...).                         *)
CallEval ==
    /\ pc = "call"
    /\ UNCHANGED reportVars
    /\ UNCHANGED <<error_args, env, hook_log>>
    /\ ~NothingToBuild
    /\ pc' = "eval"
    /\ UNCHANGED <<attr_names, tree, MAX_ATTRS_AT_ONCE, i, eval_data, eval_calls,
                   tmp_files, files, hooks, hook_calls, attrs, post_hook, builds,
                   stderr, exception>>

(* pre_build_filter has returned and nothing is left to build.             *)
ReturnUnbuilt ==
    /\ pc = "hooks"
    /\ UNCHANGED reportVars
    /\ UNCHANGED <<error_args, env, hook_log>>
    /\ hooks = 0
    /\ Filtered(attrs) = <<>>
    /\ post_hook' = attrs
    /\ pc' = "done"
    /\ UNCHANGED <<attr_names, tree, MAX_ATTRS_AT_ONCE, i, eval_data, eval_calls,
                   tmp_files, files, hooks, hook_calls, attrs, builds, stderr,
                   exception>>

(* build_shell_file_args writes attrs.nix; sh(command).                    *)
BuildFirst ==
    /\ pc = "hooks"
    /\ UNCHANGED reportVars
    /\ UNCHANGED <<error_args, env, hook_log>>
    /\ hooks = 0
    /\ Filtered(attrs) # <<>>
    /\ post_hook' = attrs
    /\ files' = files \cup {"attrs.nix"}
    /\ builds' = Append(builds, Filtered(attrs))
    /\ pc' = "build"
    /\ UNCHANGED <<attr_names, tree, MAX_ATTRS_AT_ONCE, i, eval_data, eval_calls,
                   tmp_files, hooks, hook_calls, attrs, stderr, exception>>

(* proc = sh(command, stderr=subprocess.PIPE): the same command again,     *)
(* its stderr captured.                                                    *)
BuildCaptured ==
    /\ pc = "build"
    /\ UNCHANGED reportVars
    /\ UNCHANGED <<error_args, env, hook_log>>
    /\ builds' = Append(builds, Filtered(attrs))
    /\ \E lines \in StderrDomain : stderr' = lines
    /\ pc' = "parse"
    /\ UNCHANGED <<attr_names, tree, MAX_ATTRS_AT_ONCE, i, eval_data, eval_calls,
                   tmp_files, files, hooks, hook_calls, attrs, post_hook, exception>>

(* The rest of nix_build: noise is stripped, the lines are scanned, the    *)
(* records are marked and returned; a matching line without a store path   *)
(* ends the scan with StopIteration.                                       *)
Parse ==
    /\ pc = "parse"
    /\ UNCHANGED reportVars
    /\ UNCHANGED <<error_args, env, hook_log>>
    /\ IF StopIteration(StripNoise(stderr))
       THEN /\ exception' = "StopIteration"
            /\ pc' = "raised"
            /\ UNCHANGED attrs
       ELSE /\ attrs' = ParseStderr(attrs, StripNoise(stderr))
            /\ pc' = "done"
            /\ UNCHANGED exception
    /\ UNCHANGED <<attr_names, tree, MAX_ATTRS_AT_ONCE, i, eval_data, eval_calls,
                   tmp_files, files, hooks, hook_calls, post_hook, builds, stderr>>

-----------------------------------------------------------------------------
(* Attr.was_build, SystemReport and Report.                                *)

(* Attr.was_build without 'if self._path_verified is not None': the        *)
(* verification is run at every call.                                      *)
was_build_unmemoized(attr) ==
    IF attr.path = None THEN [ret |-> FALSE, attr |-> attr, verified |-> FALSE]
    ELSE IF attr.skipped THEN [ret |-> FALSE, attr |-> attr, verified |-> FALSE]
    ELSE [ ret |-> attr.path \in store,
           attr |-> [attr EXCEPT !._path_verified =
                                     IF attr.path \in store THEN "True" ELSE "False"],
           verified |-> TRUE ]

(* Attr.was_build: the value returned, the record afterwards and whether   *)
(* 'nix store verify' was run (it is run once and its result kept).        *)
was_build(attr) ==
    IF attr.path = None THEN [ret |-> FALSE, attr |-> attr, verified |-> FALSE]
    ELSE IF attr.skipped THEN [ret |-> FALSE, attr |-> attr, verified |-> FALSE]
    ELSE IF attr._path_verified # None
         THEN [ret |-> attr._path_verified = "True", attr |-> attr, verified |-> FALSE]
    ELSE [ ret |-> attr.path \in store,
           attr |-> [attr EXCEPT !._path_verified =
                                     IF attr.path \in store THEN "True" ELSE "False"],
           verified |-> TRUE ]

startswith(str, prefix) ==
    Len(str) >= Len(prefix) /\ SubSeq(str, 1, Len(prefix)) = prefix

EmptySystemReport ==
    [ broken |-> <<>>, failed |-> <<>>, non_existent |-> <<>>,
      blacklisted |-> <<>>, tests |-> <<>>, built |-> <<>> ]

(* The branch of SystemReport.__init__ the record takes.                   *)
Bucket(attr) ==
    IF attr.broken THEN "broken"
    ELSE IF attr.blacklisted THEN "blacklisted"
    ELSE IF ~attr.exists THEN "non_existent"
    ELSE IF startswith(attr.name, "nixosTests.") THEN "tests"
    ELSE IF ~was_build(attr).ret THEN "failed"
    ELSE "built"

(* Whether the branch of the record calls attr.was_build().                *)
AsksWasBuild(attr) ==
    ~attr.broken /\ ~attr.blacklisted /\ attr.exists
        /\ ~startswith(attr.name, "nixosTests.")

(* SystemReport.__init__: the loop from record k on; the records           *)
(* afterwards and the buckets.                                             *)
RECURSIVE SystemReport(_, _, _)
SystemReport(as, k, report) ==
    IF k > Len(as) THEN [attrs |-> as, report |-> report]
    ELSE SystemReport(
            IF AsksWasBuild(as[k]) THEN [as EXCEPT ![k] = was_build(as[k]).attr] ELSE as,
            k + 1,
            [report EXCEPT ![Bucket(as[k])] = Append(@, k)])

(* Report.succeeded                                                        *)
succeeded == \A s \in DOMAIN system_reports : Len(system_reports[s].failed) = 0

(* system_order_key of utils: the rank of the platform in the fixed        *)
(* priority x86_64-linux, aarch64-linux, x86_64-darwin, aarch64-darwin,    *)
(* the greater the earlier in a report.                                    *)
SystemPriority == <<"x86_64-linux", "aarch64-linux", "x86_64-darwin", "aarch64-darwin">>
system_order_key(system) ==
    Len(SystemPriority) - (CHOOSE k \in 1..Len(SystemPriority) : SystemPriority[k] = system)

(* sorted(..., reverse=True) without the sort: the platforms stay in the   *)
(* order they were given.                                                  *)
InsertLast(done, system) == Append(done, system)

(* sorted(..., key=..., reverse=True) of a list of platforms: a stable     *)
(* insertion sort, the greater key first, equal keys in their given order. *)
InsertByKey(done, system) ==
    LET before == SelectSeq(done, LAMBDA t : system_order_key(t) >= system_order_key(system))
        after == SelectSeq(done, LAMBDA t : system_order_key(t) < system_order_key(system))
    IN  before \o <<system>> \o after

RECURSIVE order_reports(_)
order_reports(keys) ==
    IF keys = <<>> THEN <<>>
    ELSE InsertByKey(order_reports(SubSeq(keys, 1, Len(keys) - 1)), keys[Len(keys)])

(* The calls of attr.was_build() that SystemReport.__init__ makes for the  *)
(* records of one platform: the value returned and whether the             *)
(* verification was run.                                                   *)
RECURSIVE ClassifierCalls(_, _, _)
ClassifierCalls(system, as, k) ==
    IF k > Len(as) THEN <<>>
    ELSE (IF AsksWasBuild(as[k])
          THEN << [ system |-> system, index |-> k, ret |-> was_build(as[k]).ret,
                    verified |-> was_build(as[k]).verified ] >>
          ELSE <<>>) \o ClassifierCalls(system, as, k + 1)

RECURSIVE ReportCalls(_)
ReportCalls(keys) ==
    IF keys = <<>> THEN <<>>
    ELSE ClassifierCalls(keys[1], attrs_per_system[keys[1]], 1) \o ReportCalls(Tail(keys))

(* Report.__init__: one SystemReport per platform, then order_reports.     *)
NewReport ==
    /\ rpc = "idle"
    /\ attrs_per_system' =
          [ s \in DOMAIN attrs_per_system |->
              SystemReport(attrs_per_system[s], 1, EmptySystemReport).attrs ]
    /\ system_reports' =
          [ s \in DOMAIN attrs_per_system |->
              SystemReport(attrs_per_system[s], 1, EmptySystemReport).report ]
    /\ report_keys' = order_reports(attrs_keys)
    /\ was_build_calls' = was_build_calls \o ReportCalls(attrs_keys)
    /\ rpc' = "reported"
    /\ UNCHANGED <<store, attrs_keys, report_args, outputVars>>
    /\ UNCHANGED buildVars

(* A call of attr.was_build() on a record, from wherever.                  *)
WasBuild ==
    /\ Len(was_build_calls) < MaxCalls
    /\ \E s \in DOMAIN attrs_per_system : \E k \in 1..Len(attrs_per_system[s]) :
          /\ attrs_per_system' =
                [attrs_per_system EXCEPT ![s][k] = was_build(attrs_per_system[s][k]).attr]
          /\ was_build_calls' =
                Append(was_build_calls,
                       [ system |-> s, index |-> k,
                         ret |-> was_build(attrs_per_system[s][k]).ret,
                         verified |-> was_build(attrs_per_system[s][k]).verified ])
    /\ UNCHANGED <<system_reports, store, rpc, attrs_keys, report_args, report_keys,
                   outputVars>>
    /\ UNCHANGED buildVars

(* The output paths of the records a Report is made from.                 *)
ReportPaths == {"P1"}

(* The content store changes between two calls: a path becomes valid (it   *)
(* was built or fetched) or stops being valid (it was collected).          *)
StoreChange ==
    /\ \E path \in ReportPaths :
          store' = IF path \in store THEN store \ {path} ELSE store \cup {path}
    /\ UNCHANGED <<attrs_per_system, system_reports, rpc, attrs_keys, report_args,
                   report_keys, was_build_calls, outputVars>>
    /\ UNCHANGED buildVars

-----------------------------------------------------------------------------
(* Report.upload_build_logs.                                               *)

(* The records the two nested loops visit, in their order: for each        *)
(* platform of system_reports, the records of its failed bucket.           *)
RECURSIVE FailedVisits(_)
FailedVisits(keys) ==
    IF keys = <<>> THEN <<>>
    ELSE [ j \in 1..Len(system_reports[keys[1]].failed) |->
             [system |-> keys[1], index |-> system_reports[keys[1]].failed[j]] ]
         \o FailedVisits(Tail(keys))

(* Attr.log: None without a drv_path; otherwise the text of 'nix log',     *)
(* possibly empty, joined with a newline to build_err_msg if there is one. *)
LogContents(pkg) ==
    IF pkg.drv_path = None THEN {None}
    ELSE IF pkg.build_err_msg # NoMsg THEN {"log"}
    ELSE {"", "log"}

(* github_client.upload_gist: it returns the gist, or urlopen raises       *)
(* HTTPError (an error status, raised again after the retries of backoff)  *)
(* or URLError (no connection), which is not an HTTPError.                 *)
UploadOutcomes == {"gist", "HTTPError", "URLError"}

(* except urllib.error.HTTPError                                           *)
Caught(outcome) == outcome = "HTTPError"

(* One pass of the inner loop of upload_build_logs.                        *)
UploadLog ==
    /\ rpc = "reported"
    /\ rexception = None
    /\ upload_next < Len(FailedVisits(report_keys))
    /\ upload_next' = upload_next + 1
    /\ LET visit == FailedVisits(report_keys)[upload_next + 1]
           pkg == attrs_per_system[visit.system][visit.index]
       IN  \E log_content \in LogContents(pkg) :
             IF log_content # None /\ Len(log_content) > 0
             THEN \E outcome \in UploadOutcomes :
                    /\ uploads' = Append(uploads, [ system |-> visit.system,
                                                    index |-> visit.index,
                                                    outcome |-> outcome ])
                    /\ attrs_per_system' =
                          IF outcome = "gist"
                          THEN [attrs_per_system EXCEPT
                                  ![visit.system][visit.index].log_url = "html_url"]
                          ELSE attrs_per_system
                    /\ rexception' =
                          IF outcome = "gist" \/ Caught(outcome) THEN None ELSE outcome
             ELSE UNCHANGED <<uploads, attrs_per_system, rexception>>
    /\ UNCHANGED <<system_reports, store, rpc, attrs_keys, report_args, report_keys,
                   was_build_calls, links, dirs, md, docs>>
    /\ UNCHANGED buildVars

-----------------------------------------------------------------------------
(* write_result_links.                                                     *)

(* The records, in the order of the two loops, that pass                   *)
(* 'if attr.blacklisted or attr.drv_path is None: continue' and have a     *)
(* path.                                                                   *)
RECURSIVE LinkCandidates(_)
LinkCandidates(keys) ==
    IF keys = <<>> THEN <<>>
    ELSE SelectSeq([ k \in 1..Len(attrs_per_system[keys[1]]) |->
                       [system |-> keys[1], index |-> k] ],
                   LAMBDA v :
                       LET attr == attrs_per_system[v.system][v.index]
                       IN  ~(attr.blacklisted \/ attr.drv_path = None)
                               /\ attr.path # None)
         \o LinkCandidates(Tail(keys))

(* write_result_links.  Attr.path is a str (the "path" of the evaluator's  *)
(* JSON, or of a hook's), and str has no method exists: for the first      *)
(* record that has a path, attr.path.exists() raises AttributeError        *)
(* before LazyDirectory.ensure or symlink_to is reached.                   *)
WriteResultLinks ==
    /\ rpc = "reported"
    /\ IF LinkCandidates(attrs_keys) = <<>>
       THEN rpc' = "written" /\ rexception' = None
       ELSE rpc' = "raised" /\ rexception' = "AttributeError"
    /\ UNCHANGED <<links, dirs>>
    /\ UNCHANGED <<attrs_per_system, system_reports, store, attrs_keys, report_args,
                   report_keys, was_build_calls, upload_next, uploads, md, docs>>
    /\ UNCHANGED buildVars

-----------------------------------------------------------------------------
(* Report.markdown and html_pkgs_section.                                  *)

(* self.extra_nixpkgs_config as Report.__init__ sets it.                   *)
extra_nixpkgs_config ==
    IF report_args.extra_nixpkgs_config # "{ }"
    THEN report_args.extra_nixpkgs_config ELSE None

(* The records of a bucket of a platform.                                  *)
Packages(system, bucket) ==
    [ j \in 1..Len(system_reports[system][bucket]) |->
        attrs_per_system[system][system_reports[system][bucket][j]] ]

(* A piece of the markdown text: the summary line of a section, a list     *)
(* entry (name, link target or None, aliases) or the entry "...".          *)
Item(kind, text, url, aliases, count) ==
    [kind |-> kind, text |-> text, url |-> url, aliases |-> aliases, count |-> count]

(* html_pkgs_section: nothing for an empty list; else the summary and the  *)
(* entries, cut after 'show' entries by one entry "..." when show > 0.     *)
html_pkgs_section(emoji, packages, msg, what, show) ==
    IF Len(packages) = 0 THEN <<>>
    ELSE LET plural == IF Len(packages) > 1 THEN "s" ELSE ""
             cut == show > 0 /\ Len(packages) > show
         IN  << Item("summary", emoji \o " " \o what \o plural \o " " \o msg,
                     None, <<>>, Len(packages)) >>
             \o [ k \in 1..(IF cut THEN show ELSE Len(packages)) |->
                    Item("li", packages[k].name, packages[k].log_url,
                         packages[k].aliases, 0) ]
             \o (IF cut THEN <<Item("li", "...", None, <<>>, 0)>> ELSE <<>>)

(* The header of Report.markdown: the command line it quotes.              *)
Command(pr) ==
    <<"nixpkgs-review">>
    \o (IF pr # None THEN <<"pr", pr>> ELSE <<>>)
    \o (IF extra_nixpkgs_config # None
        THEN <<"--extra-nixpkgs-config", extra_nixpkgs_config>> ELSE <<>>)
    \o (IF report_args.checkout # "merge"
        THEN <<"--checkout", report_args.checkout>> ELSE <<>>)

(* Report.markdown: the header and one section per platform of             *)
(* system_reports, its body the texts of the six calls of                  *)
(* html_pkgs_section in the order they are added to msg; the calls are     *)
(* made without 'show' (-1).                                               *)
markdown(pr) ==
    [ header |-> IF report_args.show_header THEN Command(pr) ELSE <<>>,
      sections |->
        [ j \in 1..Len(report_keys) |->
            [ system |-> report_keys[j],
              body |-> <<
                   html_pkgs_section(":fast_forward:", Packages(report_keys[j], "broken"),
                                     "marked as broken and skipped", "package", -1)
                ,  html_pkgs_section(":fast_forward:",
                                     Packages(report_keys[j], "non_existent"),
                                     "present in ofBorgs evaluation, but not found in the checkout",
                                     "package", -1)
                ,  html_pkgs_section(":fast_forward:",
                                     Packages(report_keys[j], "blacklisted"),
                                     "blacklisted", "package", -1)
                ,  html_pkgs_section(":x:", Packages(report_keys[j], "failed"),
                                     "failed to build", "package", -1)
                ,  html_pkgs_section(":white_check_mark:",
                                     Packages(report_keys[j], "tests"), "built", "test", -1)
                ,  html_pkgs_section(":white_check_mark:",
                                     Packages(report_keys[j], "built"), "built",
                                     "package", -1) >> ] ] ]

(* The pull request number handed to markdown and json, or None.           *)
PrNumbers == {None, "1"}

(* A call of Report.markdown.                                              *)
Markdown ==
    /\ rpc = "reported"
    /\ md = <<>>
    /\ \E pr \in PrNumbers : md' = <<markdown(pr)>>
    /\ UNCHANGED <<attrs_per_system, system_reports, store, rpc, attrs_keys, report_args,
                   report_keys, was_build_calls, upload_next, uploads, links, dirs, docs,
                   rexception>>
    /\ UNCHANGED buildVars

-----------------------------------------------------------------------------
(* Report.json and SystemReport.serialize.                                 *)

(* JSON text as json.dumps writes it, by its syntax: null, a number, a     *)
(* string in quotes, an array of texts, an object of members, a member     *)
(* being a key in quotes and one text.                                     *)
JsonNull == [tok |-> "null", text |-> "null", items |-> <<>>]
JsonNumber(digits) == [tok |-> "number", text |-> digits, items |-> <<>>]
JsonString(str) == [tok |-> "string", text |-> "\"" \o str \o "\"", items |-> <<>>]
JsonArray(items) == [tok |-> "array", text |-> "", items |-> items]
JsonMember(key, value) == [tok |-> "member", text |-> "\"" \o key \o "\"", items |-> <<value>>]

(* The keys of the document in the order sort_keys=True compares them      *)
(* (code point order of str).                                              *)
KeyOrder ==
    << "aarch64-darwin", "aarch64-linux", "blacklisted", "broken", "built", "checkout",
       "extra-nixpkgs-config", "failed", "non-existent", "pr", "result", "systems",
       "tests", "x86_64-darwin", "x86_64-linux" >>

QuotedKeys == [ k \in 1..Len(KeyOrder) |-> "\"" \o KeyOrder[k] \o "\"" ]

KeyRank(member) == CHOOSE k \in 1..Len(QuotedKeys) : QuotedKeys[k] = member.text

(* sort_keys=True: the members of an object by key.                        *)
RECURSIVE SortKeys(_)
SortKeys(members) ==
    IF members = <<>> THEN <<>>
    ELSE LET first == CHOOSE k \in 1..Len(members) :
                         \A j \in 1..Len(members) : KeyRank(members[k]) <= KeyRank(members[j])
         IN  <<members[first]>>
             \o SortKeys([ j \in 1..(Len(members) - 1) |->
                             IF j < first THEN members[j] ELSE members[j + 1] ])

JsonObject(members) == [tok |-> "object", text |-> "", items |-> SortKeys(members)]

(* _serialize_attrs with the names sorted and without repetition.          *)
SerializeSortedNames(as) == sorted({ as[k].name : k \in 1..Len(as) })

(* _serialize_attrs: [a.name for a in attrs]                               *)
_serialize_attrs(as) == [ k \in 1..Len(as) |-> as[k].name ]

JsonNames(names) == JsonArray([ k \in 1..Len(names) |-> JsonString(names[k]) ])

(* SystemReport.serialize, dumped.                                         *)
serialize(system) ==
    JsonObject(<< JsonMember("broken", JsonNames(_serialize_attrs(Packages(system, "broken")))),
                  JsonMember("non-existent",
                             JsonNames(_serialize_attrs(Packages(system, "non_existent")))),
                  JsonMember("blacklisted",
                             JsonNames(_serialize_attrs(Packages(system, "blacklisted")))),
                  JsonMember("failed", JsonNames(_serialize_attrs(Packages(system, "failed")))),
                  JsonMember("built", JsonNames(_serialize_attrs(Packages(system, "built")))),
                  JsonMember("tests", JsonNames(_serialize_attrs(Packages(system, "tests")))) >>)

(* Report.json: json.dumps of the dict, sort_keys=True.                    *)
json(pr) ==
    JsonObject(<< JsonMember("systems", JsonNames(report_keys)),
                  JsonMember("pr", IF pr = None THEN JsonNull ELSE JsonNumber(pr)),
                  JsonMember("checkout", JsonString(report_args.checkout)),
                  JsonMember("extra-nixpkgs-config",
                             IF extra_nixpkgs_config = None THEN JsonNull
                             ELSE JsonString(extra_nixpkgs_config)),
                  JsonMember("result",
                             JsonObject([ j \in 1..Len(report_keys) |->
                                            JsonMember(report_keys[j],
                                                       serialize(report_keys[j])) ])) >>)

(* A call of Report.json.                                                  *)
Json ==
    /\ rpc = "reported"
    /\ Len(docs) < 2
    /\ \E pr \in PrNumbers : docs' = Append(docs, [pr |-> pr, text |-> json(pr)])
    /\ UNCHANGED <<attrs_per_system, system_reports, store, rpc, attrs_keys, report_args,
                   report_keys, was_build_calls, upload_next, uploads, links, dirs, md,
                   rexception>>
    /\ UNCHANGED buildVars

-----------------------------------------------------------------------------
(* The calls the model explores.                                           *)

Systems == {"x86_64-linux", "aarch64-darwin"}

Entry(exists, broken, path, drvPath) ==
    [exists |-> exists, broken |-> broken, path |-> path, drvPath |-> drvPath]

(* nix_build: a package with two outputs (one derivation D1, two output    *)
(* paths), a second derivation, a broken entry; tests.trivial is           *)
(* blacklisted.                                                            *)
BuildNames == {"pkg", "pkg.dev", "tests.trivial"}
BuildEntries ==
    { Entry(TRUE, FALSE, "P1", "D1"), Entry(TRUE, FALSE, "P2", "D1"),
      Entry(TRUE, FALSE, "P3", "D2"), Entry(TRUE, TRUE, None, None) }

(* nix_eval: identifiers of lengths 3, 3, 1, 2 in sorted order.            *)
EvalNames == {"aaa", "aab", "b", "cc"}
EvalEntries ==
    { Entry(TRUE, FALSE, "P1", "D1"), Entry(TRUE, FALSE, "P2", "D2"),
      Entry(TRUE, TRUE, None, None), Entry(FALSE, TRUE, None, None) }

(* Report(attrs_per_system, "{ }"): the defaults of the other arguments.   *)
PlainReport ==
    report_args = [extra_nixpkgs_config |-> "{ }", show_header |-> TRUE, checkout |-> "merge"]

(* No reporting call has been made.                                        *)
OutputIdle ==
    /\ report_keys = <<>>
    /\ upload_next = 0
    /\ uploads = <<>>
    /\ links = {}
    /\ dirs = {}
    /\ md = <<>>
    /\ docs = <<>>
    /\ was_build_calls = <<>>
    /\ rexception = None

ReportIdle ==
    /\ attrs_per_system = [s \in Systems |-> <<>>]
    /\ attrs_keys = <<"x86_64-linux", "aarch64-darwin">>
    /\ system_reports = [s \in Systems |-> EmptySystemReport]
    /\ store = {}
    /\ rpc = "idle"
    /\ PlainReport
    /\ OutputIdle

CallIdle ==
    /\ i = 0
    /\ eval_data = <<>>
    /\ eval_calls = 0
    /\ tmp_files = {}
    /\ files = {}
    /\ hook_calls = 0
    /\ attrs = <<>>
    /\ post_hook = <<>>
    /\ builds = <<>>
    /\ stderr = <<>>
    /\ exception = None
    /\ error_args = NoError
    /\ hook_log = <<>>

(* A call of nix_build.                                                    *)
Init ==
    /\ pc = "call"
    /\ attr_names \in SUBSET BuildNames
    /\ tree \in [attr_names -> BuildEntries]
    /\ MAX_ATTRS_AT_ONCE = MaxChunk
    /\ hooks \in 0..MaxHooks
    /\ env = [k \in 1..hooks |-> "filter"]
    /\ CallIdle
    /\ ReportIdle

Next ==
    \/ ReturnNothing
    \/ CallEval
    \/ EvalChunk
    \/ EvalChunkFail
    \/ EvalFinish
    \/ RunHook
    \/ ReturnUnbuilt
    \/ BuildFirst
    \/ BuildCaptured
    \/ Parse

Spec == Init /\ [][Next]_vars

(* A call of nix_eval by itself, for every chunk size of the model.        *)
InitEval ==
    /\ pc = "eval"
    /\ attr_names \in SUBSET EvalNames
    /\ tree \in [attr_names -> EvalEntries]
    /\ MAX_ATTRS_AT_ONCE \in 1..MaxChunk
    /\ hooks = 0
    /\ env = <<>>
    /\ CallIdle
    /\ ReportIdle

NextEval ==
    \/ EvalChunk
    \/ EvalChunkFail
    \/ EvalFinish

SpecEval == InitEval /\ [][NextEval]_vars

(* nix_build past its guard, the evaluator exiting zero, up to the start   *)
(* of the build: every value of NIXPKGS_REVIEW_PRE_BUILD_FILTER of up to   *)
(* MaxSegments items, empty items among them.                              *)
HookNames == {"pkg", "pkg.dev"}
HookEntries == { Entry(TRUE, FALSE, "P1", "D1"), Entry(TRUE, TRUE, None, None) }
Segments == {"", "skip-big", "skip-slow"}

InitHooks ==
    /\ pc = "eval"
    /\ attr_names \in SUBSET HookNames
    /\ tree \in [attr_names -> HookEntries]
    /\ MAX_ATTRS_AT_ONCE = MaxChunk
    /\ env \in UNION { [1..n -> Segments] : n \in 0..MaxSegments }
    /\ hooks = Len(Cmds(env))
    /\ CallIdle
    /\ ReportIdle

NextHooks ==
    \/ EvalChunk
    \/ EvalFinish
    \/ RunHook
    \/ ReturnUnbuilt
    \/ BuildFirst

SpecHooks == InitHooks /\ [][NextHooks]_vars


(* A Report made from the records of two platforms.  A record that is      *)
(* timed out has a drv_path, which is what nix_build matched it by.        *)
ReportNames == {"pkg", "nixosTests.x"}
ReportAttrs ==
    { attr \in
        { [ Attr(name, exists, broken, blacklisted, skipped, path,
                 IF path = None THEN None ELSE "D1")
            EXCEPT !.timed_out = timed_out ] :
            name \in ReportNames, exists \in BOOLEAN, broken \in BOOLEAN,
            blacklisted \in BOOLEAN, skipped \in BOOLEAN, timed_out \in BOOLEAN,
            path \in ReportPaths \cup {None} } :
        attr.timed_out => attr.drv_path # None }

InitReport ==
    /\ pc = "idle"
    /\ attr_names = {}
    /\ tree = <<>>
    /\ MAX_ATTRS_AT_ONCE = MaxChunk
    /\ hooks = 0
    /\ env = <<>>
    /\ CallIdle
    /\ \E n \in 0..MaxReportAttrs : \E m \in 0..(MaxReportAttrs - n) :
          \E linux \in [1..n -> ReportAttrs], darwin \in [1..m -> ReportAttrs] :
             attrs_per_system =
                [ s \in Systems |-> IF s = "x86_64-linux" THEN linux ELSE darwin ]
    /\ system_reports = [s \in Systems |-> EmptySystemReport]
    /\ attrs_keys = <<"x86_64-linux", "aarch64-darwin">>
    /\ store \in SUBSET ReportPaths
    /\ rpc = "idle"
    /\ PlainReport
    /\ OutputIdle

NextReport ==
    \/ NewReport

SpecReport == InitReport /\ [][NextReport]_vars

(* No call of nix_build is under way.                                      *)
BuildIdle ==
    /\ pc = "idle"
    /\ attr_names = {}
    /\ tree = <<>>
    /\ MAX_ATTRS_AT_ONCE = MaxChunk
    /\ hooks = 0
    /\ env = <<>>
    /\ CallIdle

(* A Report whose records may fail to build, and the upload of their logs. *)
UploadAttrs ==
    { [ Attr("pkg", TRUE, FALSE, FALSE, skipped, path,
             IF path = None THEN None ELSE "D1")
        EXCEPT !.build_err_msg = msg ] :
        skipped \in BOOLEAN, path \in ReportPaths \cup {None},
        msg \in {NoMsg, Msg(<<Line(FALSE, FALSE, TRUE, "D1", "'")>>)} }

InitUpload ==
    /\ BuildIdle
    /\ \E n \in 0..MaxReportAttrs : \E m \in 0..(MaxReportAttrs - n) :
          \E linux \in [1..n -> UploadAttrs], darwin \in [1..m -> UploadAttrs] :
             attrs_per_system =
                [ s \in Systems |-> IF s = "x86_64-linux" THEN linux ELSE darwin ]
    /\ attrs_keys \in { <<"x86_64-linux", "aarch64-darwin">>,
                         <<"aarch64-darwin", "x86_64-linux">> }
    /\ system_reports = [s \in Systems |-> EmptySystemReport]
    /\ store \in SUBSET ReportPaths
    /\ rpc = "idle"
    /\ PlainReport
    /\ OutputIdle

NextUpload ==
    \/ NewReport
    \/ UploadLog

SpecUpload == InitUpload /\ [][NextUpload]_vars

(* A Report and the result links of its records (Report.write).            *)
LinkAttrs ==
    { Attr("pkg", TRUE, FALSE, blacklisted, skipped, path,
           IF path = None THEN None ELSE "D1") :
        blacklisted \in BOOLEAN, skipped \in BOOLEAN,
        path \in ReportPaths \cup {None} }

InitLinks ==
    /\ BuildIdle
    /\ \E n \in 0..MaxReportAttrs : \E m \in 0..(MaxReportAttrs - n) :
          \E linux \in [1..n -> LinkAttrs], darwin \in [1..m -> LinkAttrs] :
             attrs_per_system =
                [ s \in Systems |-> IF s = "x86_64-linux" THEN linux ELSE darwin ]
    /\ attrs_keys \in { <<"x86_64-linux", "aarch64-darwin">>,
                         <<"aarch64-darwin", "x86_64-linux">> }
    /\ system_reports = [s \in Systems |-> EmptySystemReport]
    /\ store \in SUBSET ReportPaths
    /\ rpc = "idle"
    /\ PlainReport
    /\ OutputIdle

NextLinks ==
    \/ NewReport
    \/ WriteResultLinks

SpecLinks == InitLinks /\ [][NextLinks]_vars

(* One record per platform, classified by a Report and asked was_build()   *)
(* before and after, while the content store changes.                      *)
WasBuildAttrs ==
    { Attr("pkg", TRUE, FALSE, FALSE, skipped, path, IF path = None THEN None ELSE "D1") :
        skipped \in BOOLEAN, path \in ReportPaths \cup {None} }

InitWasBuild ==
    /\ BuildIdle
    /\ \E linux \in WasBuildAttrs, darwin \in WasBuildAttrs :
          attrs_per_system =
             [ s \in Systems |-> IF s = "x86_64-linux" THEN <<linux>> ELSE <<darwin>> ]
    /\ attrs_keys = <<"x86_64-linux", "aarch64-darwin">>
    /\ system_reports = [s \in Systems |-> EmptySystemReport]
    /\ store \in SUBSET ReportPaths
    /\ rpc = "idle"
    /\ PlainReport
    /\ OutputIdle

NextWasBuild ==
    \/ NewReport
    \/ WasBuild
    \/ StoreChange

SpecWasBuild == InitWasBuild /\ [][NextWasBuild]_vars

(* A Report of up to three platforms, supplied in any order, rendered to   *)
(* markdown and to JSON.                                                   *)
RenderSystems == {"x86_64-linux", "aarch64-linux", "aarch64-darwin"}

RenderOrders ==
    { keys \in UNION { [1..n -> RenderSystems] : n \in 0..Cardinality(RenderSystems) } :
        \A a, b \in 1..Len(keys) : a # b => keys[a] # keys[b] }

(* The records of a platform: a run of up to MaxReportAttrs records of     *)
(* this list, the same run for every platform.                             *)
RenderList ==
    << Attr("pkg", TRUE, FALSE, FALSE, FALSE, "P1", "D1"),
       [Attr("aaa", TRUE, FALSE, FALSE, FALSE, "P1", "D1") EXCEPT !.aliases = <<"aab">>],
       Attr("nixosTests.x", TRUE, FALSE, FALSE, FALSE, "P1", "D1"),
       Attr("b", TRUE, TRUE, FALSE, FALSE, None, None),
       Attr("cc", FALSE, FALSE, FALSE, FALSE, None, None) >>

RenderAttrs ==
    { SubSeq(RenderList, from, Min(from + n - 1, Len(RenderList))) :
        from \in 1..Len(RenderList), n \in 0..MaxReportAttrs }

RenderArgs ==
    { [extra_nixpkgs_config |-> "{ }", show_header |-> TRUE, checkout |-> "merge"],
      [extra_nixpkgs_config |-> "{ allowUnfree = true; }", show_header |-> FALSE,
       checkout |-> "commit"] }

InitRender ==
    /\ BuildIdle
    /\ attrs_keys \in RenderOrders
    /\ \E as \in RenderAttrs :
          attrs_per_system = [ s \in { attrs_keys[k] : k \in 1..Len(attrs_keys) } |-> as ]
    /\ system_reports = [ s \in DOMAIN attrs_per_system |-> EmptySystemReport ]
    /\ report_args \in RenderArgs
    /\ store \in SUBSET ReportPaths
    /\ rpc = "idle"
    /\ OutputIdle

NextRender ==
    \/ NewReport
    \/ Markdown
    \/ Json

SpecRender == InitRender /\ [][NextRender]_vars

(* A Report of two platforms with up to MaxReportAttrs records in all,     *)
(* rendered to markdown and to JSON.                                       *)
JsonAttrs ==
    { RenderList[1], RenderList[2], RenderList[3], RenderList[5] }

InitJson ==
    /\ BuildIdle
    /\ \E n \in 0..MaxReportAttrs : \E m \in 0..(MaxReportAttrs - n) :
          \E linux \in [1..n -> JsonAttrs], darwin \in [1..m -> JsonAttrs] :
             attrs_per_system =
                [ s \in Systems |-> IF s = "x86_64-linux" THEN linux ELSE darwin ]
    /\ attrs_keys \in { <<"x86_64-linux", "aarch64-darwin">>,
                         <<"aarch64-darwin", "x86_64-linux">> }
    /\ system_reports = [s \in Systems |-> EmptySystemReport]
    /\ store \in SUBSET ReportPaths
    /\ rpc = "idle"
    /\ PlainReport
    /\ OutputIdle

NextJson ==
    \/ NewReport
    \/ Markdown
    \/ Json

SpecJson == InitJson /\ [][NextJson]_vars

-----------------------------------------------------------------------------
(* Properties of nix_eval, checked under SpecEval.                         *)

Evaluated == pc = "hooks" /\ exception = None

Count(seq, x) == Cardinality({ k \in 1..Len(seq) : seq[k] = x })

SamePathNames(path) == { n \in attr_names : tree[n].path = path }

MergedPaths ==
    { path \in { tree[n].path : n \in attr_names } \ {None} :
        Cardinality(SamePathNames(path)) >= 2 }

(* C2: when nix_eval has returned, every output path that two or more of   *)
(* the identifiers resolve to has exactly one record, that record carries  *)
(* a shortest of their names, and each of the other names is in its alias  *)
(* list exactly once.                                                      *)
C2_AliasesMergedNotDropped ==
    Evaluated =>
        \A path \in MergedPaths :
            /\ Cardinality({ k \in 1..Len(attrs) : attrs[k].path = path }) = 1
            /\ \A k \in 1..Len(attrs) :
                  attrs[k].path = path =>
                      /\ attrs[k].name \in SamePathNames(path)
                      /\ \A n \in SamePathNames(path) : Len(attrs[k].name) <= Len(n)
                      /\ \A n \in SamePathNames(path) \ {attrs[k].name} :
                            Count(attrs[k].aliases, n) = 1

(* C10: when the chunk loop has run to its end, the merged mapping is the  *)
(* mapping one evaluation of the whole sorted list gives, keys in the same *)
(* order, and so is the record list made from it.                          *)
C10_ChunkingNotObservable ==
    Evaluated =>
        /\ eval_data = Evaluator(sorted(attr_names))
        /\ attrs = _nix_eval_filter(Evaluator(sorted(attr_names)))

(* Three chunks were evaluated and two identifiers of different chunks     *)
(* were merged into one record.                                            *)
C10_Witness ==
    /\ Evaluated
    /\ eval_calls >= 3
    /\ \E k \in 1..Len(attrs) : attrs[k].aliases # <<>>

(* The chunks that start before position k of the sorted list.             *)
ChunksUpTo(k) == (k + MAX_ATTRS_AT_ONCE - 1) \div MAX_ATTRS_AT_ONCE

(* C12: a chunk's temporary file is gone once the evaluator has exited     *)
(* zero for it; when the evaluator exits non-zero the file of that chunk   *)
(* stays, NixpkgsReviewError names the command and that file, and no later *)
(* chunk is evaluated: nix_eval leaves no file when it returns and just    *)
(* the failing chunk's file when it raises.                                *)
C12_TempFileKeptOnlyOnFailure ==
    /\ pc = "eval" => tmp_files = {} /\ eval_calls = ChunksUpTo(i)
    /\ Evaluated => tmp_files = {} /\ error_args = NoError
    /\ pc = "raised" =>
          /\ exception = "NixpkgsReviewError"
          /\ error_args = [cmd |-> "nix eval", file |-> i]
          /\ tmp_files = {i}
          /\ i < Cardinality(attr_names)
          /\ eval_calls = ChunksUpTo(i) + 1

(* The evaluator exited non-zero for the third chunk.                      *)
C12_Witness ==
    /\ pc = "raised"
    /\ eval_calls = 3
    /\ tmp_files = {2}

-----------------------------------------------------------------------------
(* Properties of pre_build_filter, checked under SpecHooks.                *)

(* The list nix_eval returned, which pre_build_filter is called with.      *)
InitialRecords == _nix_eval_filter(eval_data)

SameRecords(a, b) ==
    /\ Len(a) = Len(b)
    /\ \A k \in 1..Len(a) : StripKey(a[k]) = StripKey(b[k])

(* The list after hook k has run.                                          *)
RecordsAfter(k) == IF k = Len(hook_log) THEN attrs ELSE hook_log[k + 1].input

FilterReturned == pc \in {"build", "done"}

-----------------------------------------------------------------------------
(* Properties of nix_build, checked under Spec.                            *)

Returned == pc = "done"
Parsed == Returned /\ Len(builds) >= 2

(* The names, in list order, of the records that are not broken, not       *)
(* blacklisted and not skipped.                                            *)
BuildableNames(as) ==
    LET kept == SelectSeq(as, LAMBDA a : ~a.broken /\ ~a.blacklisted /\ ~a.skipped)
    IN  [ k \in 1..Len(kept) |-> kept[k].name ]

(* C3: a call that has something to build invokes the build tool once.     *)
C3_BuildToolInvokedOnce ==
    /\ Len(builds) <= 1
    /\ Returned /\ BuildableNames(post_hook) # <<>> => Len(builds) = 1

NamedInDepLine(drv, lines) ==
    \E j \in 1..Len(lines) : lines[j].dep /\ DepKey(lines[j].tok) = drv

NamedInTimeoutLine(drv, lines) ==
    \E j \in 1..Len(lines) : lines[j].to /\ TimeoutKey(lines[j].tok) = drv

AnyTimeoutLine(lines) == \E j \in 1..Len(lines) : lines[j].to

(* C5: after parsing, every record whose drv_path a dependency-failure     *)
(* line names carries the whole noise-stripped stderr as its message and   *)
(* is timed out exactly if the stderr holds a timeout line.                *)
C5_FailedDependencyRecords ==
    Parsed =>
        \A k \in 1..Len(attrs) :
            NamedInDepLine(attrs[k].drv_path, StripNoise(stderr)) =>
                /\ attrs[k].build_err_msg = Msg(StripNoise(stderr))
                /\ attrs[k].timed_out <=> AnyTimeoutLine(StripNoise(stderr))

LastWithDrvPath(as, k) == \A j \in 1..Len(as) : as[j].drv_path = as[k].drv_path => j <= k

LastTimeoutLine(drv, lines) ==
    lines[CHOOSE j \in 1..Len(lines) :
            /\ lines[j].to /\ TimeoutKey(lines[j].tok) = drv
            /\ \A m \in 1..Len(lines) :
                  lines[m].to /\ TimeoutKey(lines[m].tok) = drv => m <= j]

C7_NothingRaisedPastBuild ==
    Len(builds) >= 2 => pc \in {"parse", "done"} /\ exception = None

(* C8: a call with an empty set returns [] at once: no evaluator, no hook, *)
(* no build tool, no file.                                                 *)
C8_EmptySetShortCircuits ==
    attr_names = {} =>
        /\ pc \in {"call", "done"}
        /\ attrs = <<>>
        /\ exception = None
        /\ eval_calls = 0
        /\ hook_calls = 0
        /\ builds = <<>>
        /\ files = {}
        /\ tmp_files = {}

(* The call with an empty set has returned, with a hook configured.        *)
C8_Witness == attr_names = {} /\ Returned /\ hooks > 0

(* C9: the build tool is handed exactly the names of the records           *)
(* pre_build_filter returned that are not broken, not blacklisted and not  *)
(* skipped; when there is none, no build is run and the records are        *)
(* returned as pre_build_filter returned them.                             *)
C9_BuildsExactlyTheFiltered ==
    /\ \A k \in 1..Len(builds) : builds[k] = BuildableNames(post_hook)
    /\ Returned /\ attr_names # {} =>
          IF BuildableNames(post_hook) = <<>>
          THEN builds = <<>> /\ attrs = post_hook
          ELSE builds # <<>>

(* A build ran for some records while a skipped and a blacklisted one      *)
(* stayed out of it.                                                       *)
C9_Witness ==
    /\ Returned
    /\ builds # <<>>
    /\ \E k \in 1..Len(post_hook) : post_hook[k].skipped /\ ~post_hook[k].blacklisted
    /\ \E k \in 1..Len(post_hook) : post_hook[k].blacklisted

-----------------------------------------------------------------------------
(* Properties of SystemReport and Report, checked under SpecReport.        *)

Reported == rpc = "reported"

InBucket(s, k, bucket) ==
    /\ bucket \in DOMAIN system_reports[s]
    /\ \E j \in 1..Len(system_reports[s][bucket]) : system_reports[s][bucket][j] = k

(* The bucket the fixed precedence broken > blacklisted > skipped >        *)
(* timed-out > non-existent > tests > failed > built gives the record.     *)
PrecedenceBucket(attr) ==
    IF attr.broken THEN "broken"
    ELSE IF attr.blacklisted THEN "blacklisted"
    ELSE IF attr.skipped THEN "skipped"
    ELSE IF attr.timed_out THEN "timed_out"
    ELSE IF ~attr.exists THEN "non_existent"
    ELSE IF startswith(attr.name, "nixosTests.") THEN "tests"
    ELSE IF attr.path = None \/ attr.path \notin store THEN "failed"
    ELSE "built"

PrecedenceBuckets ==
    {"broken", "blacklisted", "skipped", "timed_out", "non_existent", "tests",
     "failed", "built"}

(* C1: every record of a SystemReport is in exactly one bucket, the one    *)
(* the fixed precedence gives it.                                          *)
C1_OneBucketByPrecedence ==
    Reported =>
        \A s \in Systems : \A k \in 1..Len(attrs_per_system[s]) :
            \A bucket \in PrecedenceBuckets \cup DOMAIN system_reports[s] :
                InBucket(s, k, bucket) <=> bucket = PrecedenceBucket(attrs_per_system[s][k])

(* C4: succeeded() is false exactly if some platform's failed bucket is    *)
(* not empty, and it is true whenever the precedence puts no record into   *)
(* the failed bucket.                                                      *)
C4_SucceededIffNoFailed ==
    Reported =>
        /\ ~succeeded <=> \E s \in Systems : system_reports[s].failed # <<>>
        /\ (\A s \in Systems : \A k \in 1..Len(attrs_per_system[s]) :
               PrecedenceBucket(attrs_per_system[s][k]) # "failed")
           => succeeded

-----------------------------------------------------------------------------
(* Properties of Report.upload_build_logs, checked under SpecUpload.       *)

UploadReturned ==
    Reported /\ rexception = None /\ upload_next = Len(FailedVisits(report_keys))

Attempted(visit) ==
    \E j \in 1..Len(uploads) :
        uploads[j].system = visit.system /\ uploads[j].index = visit.index

(* C11: upload_build_logs takes the failed records one after another; a    *)
(* failed upload of whatever kind is caught, leaves log_url unset and      *)
(* does not keep the later records from being visited: no exception leaves *)
(* the call, and the buckets and succeeded() stay as they were.            *)
C11_UploadFailuresAreCaught ==
    Reported =>
        /\ rexception = None
        /\ \A j \in 1..Len(uploads) :
               /\ uploads[j].outcome # "gist" =>
                     attrs_per_system[uploads[j].system][uploads[j].index].log_url = None
               /\ \E v \in 1..upload_next :
                     /\ FailedVisits(report_keys)[v].system = uploads[j].system
                     /\ FailedVisits(report_keys)[v].index = uploads[j].index
        /\ system_reports =
               [ s \in Systems |->
                   SystemReport(attrs_per_system[s], 1, EmptySystemReport).report ]

-----------------------------------------------------------------------------
(* Properties of write_result_links, checked under SpecLinks.              *)

LinksWritten == rpc \in {"written", "raised"}

(* The symlink a record is to get: none for a blacklisted record or one    *)
(* without drv_path or path, else one below results if its path verifies   *)
(* and the record is not skipped, below failed_results otherwise.          *)
ExpectedLink(s, k) ==
    [ dir |-> IF attrs_per_system[s][k].path \in store /\ ~attrs_per_system[s][k].skipped
              THEN "results" ELSE "failed_results",
      name |-> <<attrs_per_system[s][k].name, s>>,
      target |-> attrs_per_system[s][k].path ]

ExpectedLinks ==
    UNION { { ExpectedLink(s, k) :
                k \in { j \in 1..Len(attrs_per_system[s]) :
                          /\ ~attrs_per_system[s][j].blacklisted
                          /\ attrs_per_system[s][j].drv_path # None
                          /\ attrs_per_system[s][j].path # None } } :
            s \in Systems }

(* C14: write_result_links returns having made exactly the expected        *)
(* symlinks, and the directories results and failed_results exactly if a   *)
(* symlink was put into them.                                              *)
C14_ResultLinks ==
    LinksWritten =>
        /\ rexception = None
        /\ links = ExpectedLinks
        /\ dirs = { link.dir : link \in ExpectedLinks }

-----------------------------------------------------------------------------
(* Properties of Report.markdown and Report.json, checked under            *)
(* SpecRender (the order of the platforms) and SpecJson (the buckets).     *)

Quoted(str) == "\"" \o str \o "\""
Unquoted(text) == SubSeq(text, 2, Len(text) - 1)

(* json.loads, read where it is needed: the value of a key of an object    *)
(* (the last member with the key) and the strings of an array.             *)
ValueOf(object, key) ==
    LET at == { k \in 1..Len(object.items) : object.items[k].text = Quoted(key) }
    IN  object.items[CHOOSE k \in at : \A j \in at : j <= k].items[1]

HasKey(object, key) ==
    /\ object.tok = "object"
    /\ \E k \in 1..Len(object.items) : object.items[k].text = Quoted(key)

StringsOf(array) == [ k \in 1..Len(array.items) |-> Unquoted(array.items[k].text) ]

KeysOf(object) == [ k \in 1..Len(object.items) |-> Unquoted(object.items[k].text) ]

SectionOrder(document) ==
    [ j \in 1..Len(document.sections) |-> document.sections[j].system ]

SamePlatforms(keys) ==
    { attrs_keys[k] : k \in 1..Len(attrs_keys) } = { keys[k] : k \in 1..Len(keys) }

OrderFromSetOnly ==
    \A keys \in RenderOrders : SamePlatforms(keys) => order_reports(keys) = report_keys

(* C15 as claimed: the order of the platforms of a Report is the same for  *)
(* every order they are supplied in, and the sections of the markdown      *)
(* text, the systems array and the members of "result" of the JSON text    *)
(* are all in that order.                                                  *)
C15_OnePlatformOrderEverywhere ==
    Reported =>
        /\ OrderFromSetOnly
        /\ \A k \in 1..Len(md) : SectionOrder(md[k]) = report_keys
        /\ \A k \in 1..Len(docs) :
               /\ StringsOf(ValueOf(docs[k].text, "systems")) = report_keys
               /\ KeysOf(ValueOf(docs[k].text, "result")) = report_keys

(* The platforms in code point order of their names.                       *)
PlatformsByName ==
    SelectSeq(KeyOrder, LAMBDA key : \E k \in 1..Len(report_keys) : report_keys[k] = key)

(* C15 as amended: the order of the platforms of a Report is the same for  *)
(* every order they are supplied in; the sections of the markdown text and *)
(* the systems array of the JSON text are in that order, and the members   *)
(* of "result" of the JSON text are in the order of the sorted keys.       *)
C15_PlatformOrder ==
    Reported =>
        /\ OrderFromSetOnly
        /\ \A k \in 1..Len(md) : SectionOrder(md[k]) = report_keys
        /\ \A k \in 1..Len(docs) :
               /\ StringsOf(ValueOf(docs[k].text, "systems")) = report_keys
               /\ KeysOf(ValueOf(docs[k].text, "result")) = PlatformsByName

(* Three platforms supplied in another order than the Report's, rendered   *)
(* both ways, the sorted keys being in a third order.                      *)
C15_Witness ==
    /\ Reported
    /\ Len(report_keys) = 3
    /\ attrs_keys # report_keys
    /\ md # <<>>
    /\ docs # <<>>
    /\ PlatformsByName # report_keys

Entries(part) == { k \in 2..Len(part) : part[k].text # "..." }
Ellipses(part) == { k \in 2..Len(part) : part[k].text = "..." }

(* C16: whatever the display cap is, a bucket of the markdown text with    *)
(* more entries than the cap shows cap entries and then one "...", and a   *)
(* bucket with no more entries than the cap shows them all and no "...".   *)
C16_BucketsCutAtCap ==
    \A cap \in 1..MaxReportAttrs :
        \A k \in 1..Len(md) : \A j \in 1..Len(md[k].sections) :
            \A b \in 1..Len(md[k].sections[j].body) :
                LET part == md[k].sections[j].body[b]
                IN  part # <<>> =>
                        IF part[1].count > cap
                        THEN /\ Cardinality(Entries(part)) = cap
                             /\ Ellipses(part) = {Len(part)}
                        ELSE /\ Cardinality(Entries(part)) = part[1].count
                             /\ Ellipses(part) = {}

BucketKeys ==
    [ broken |-> "broken", non_existent |-> "non-existent", blacklisted |-> "blacklisted",
      failed |-> "failed", built |-> "built", tests |-> "tests" ]

NamesHeld(system, bucket) ==
    [ j \in 1..Len(Packages(system, bucket)) |-> Packages(system, bucket)[j].name ]

(* C17: the JSON text of a Report, parsed, gives for every platform and    *)
(* every bucket the names of the bucket's records in their order, and two  *)
(* calls for the same pull request give the same text.                     *)
C17_JsonRoundTrip ==
    Reported =>
        /\ \A k \in 1..Len(docs) :
               /\ \A j \in 1..Len(report_keys) :
                      /\ HasKey(ValueOf(docs[k].text, "result"), report_keys[j])
                      /\ \A bucket \in DOMAIN BucketKeys :
                            /\ HasKey(ValueOf(ValueOf(docs[k].text, "result"), report_keys[j]),
                                      BucketKeys[bucket])
                            /\ StringsOf(ValueOf(ValueOf(ValueOf(docs[k].text, "result"),
                                                          report_keys[j]),
                                                  BucketKeys[bucket]))
                                  = NamesHeld(report_keys[j], bucket)
               /\ Len(ValueOf(docs[k].text, "result").items) = Len(report_keys)
        /\ \A a, b \in 1..Len(docs) : docs[a].pr = docs[b].pr => docs[a].text = docs[b].text

(* Two documents for one pull request of a Report with a bucket of two     *)
(* names that are not in sorted order.                                     *)
C17_Witness ==
    /\ Reported
    /\ Len(docs) = 2
    /\ docs[1].pr = docs[2].pr
    /\ \E s \in DOMAIN system_reports : NamesHeld(s, "built") = <<"pkg", "aaa">>

-----------------------------------------------------------------------------
(* Properties of Attr.was_build, checked under SpecWasBuild.               *)

(* The calls made on one record, as positions of was_build_calls.          *)
CallsOn(s, k) ==
    { j \in 1..Len(was_build_calls) :
        was_build_calls[j].system = s /\ was_build_calls[j].index = k }

Cached(value) == IF value THEN "True" ELSE "False"

(* C18: over the calls of was_build() on a record the verification is run  *)
(* at most once; _path_verified is None until it is run and the value it   *)
(* returned from then on, every later call returns that value, and a       *)
(* record without path or with skipped set returns False at every call     *)
(* without the verification being run.                                     *)
C18_VerifiedAtMostOnce ==
    \A s \in Systems : \A k \in 1..Len(attrs_per_system[s]) :
        LET attr == attrs_per_system[s][k]
            ran == { j \in CallsOn(s, k) : was_build_calls[j].verified }
        IN  /\ Cardinality(ran) <= 1
            /\ ran = {} => attr._path_verified = None
            /\ \A j \in ran :
                  /\ attr._path_verified = Cached(was_build_calls[j].ret)
                  /\ \A later \in CallsOn(s, k) :
                        later > j => was_build_calls[later].ret = was_build_calls[j].ret
            /\ attr.path = None \/ attr.skipped =>
                  /\ ran = {}
                  /\ \A j \in CallsOn(s, k) : ~was_build_calls[j].ret

(* A record verified by the classifier as built and asked again after its  *)
(* path left the store: the second call still returns True.                *)
C18_Witness ==
    /\ Reported
    /\ \E s \in Systems :
          /\ Cardinality(CallsOn(s, 1)) >= 2
          /\ attrs_per_system[s][1]._path_verified = "True"
          /\ attrs_per_system[s][1].path \notin store
          /\ was_build_calls[CHOOSE j \in CallsOn(s, 1) : \A m \in CallsOn(s, 1) : m <= j].ret

====
